---- MODULE Spec2Model ----
(***************************************************************************)
(* Model of zfs_backup_manager (src/src/zfs_backup_manager/__init__.py).   *)
(*                                                                         *)
(* A date is the number of days since 2024-01-01 (a Monday).  A snapshot  *)
(* name is the part after "@", a sequence of one-character strings.  The  *)
(* backend `zfs` maps every dataset to the set of snapshot names it holds. *)
(***************************************************************************)
EXTENDS Integers, Sequences, FiniteSets, Bags, TLC

(* ---------------------------- bounds ----------------------------------- *)
\* number of candidate dates (prefix of DateSeq) that runs and catalogs use
MaxDates == 3
\* largest keep_days / keep_weeks / keep_months value of a configuration with two
\* datasets, or of one used for several invocations
MaxKeep == 1
\* largest keep_days / keep_weeks / keep_months value of a configuration with one dataset
\* used for one invocation
MaxKeepSingle == 2
\* number of invocations of main in one behaviour
MaxRuns == 2

(* ------------------------ program constants ---------------------------- *)
DEFAULT_DOM == 1
DEFAULT_DOW == 7
DEFAULT_RECURSIVE == TRUE
DEFAULT_KEEP_DAYS == 0
DEFAULT_KEEP_WEEKS == 0
DEFAULT_KEEP_MONTHS == 0

(* ------------------------------ calendar ------------------------------- *)
EpochYear == 2024

IsLeap(y) == (y % 4 = 0 /\ y % 100 # 0) \/ y % 400 = 0

DaysInYear(y) == IF IsLeap(y) THEN 366 ELSE 365

DaysInMonth(y, m) ==
    IF m = 2 THEN (IF IsLeap(y) THEN 29 ELSE 28)
    ELSE IF m \in {4, 6, 9, 11} THEN 30 ELSE 31

RECURSIVE DaysBeforeMonth(_, _)
DaysBeforeMonth(y, m) ==
    IF m <= 1 THEN 0 ELSE DaysBeforeMonth(y, m - 1) + DaysInMonth(y, m - 1)

RECURSIVE DaysBeforeYear(_)
DaysBeforeYear(y) ==
    IF y = EpochYear THEN 0
    ELSE IF y > EpochYear THEN DaysBeforeYear(y - 1) + DaysInYear(y - 1)
    ELSE DaysBeforeYear(y + 1) - DaysInYear(y)

\* date(y, m, d) as a day number
ToDate(y, m, d) == DaysBeforeYear(y) + DaysBeforeMonth(y, m) + (d - 1)

RECURSIVE YearOf(_, _)
YearOf(n, y) ==
    IF n < 0 THEN YearOf(n + DaysInYear(y - 1), y - 1)
    ELSE IF n >= DaysInYear(y) THEN YearOf(n - DaysInYear(y), y + 1)
    ELSE y

Year(date) == YearOf(date, EpochYear)

RECURSIVE MonthOf(_, _, _)
MonthOf(n, y, m) ==
    IF n >= DaysInMonth(y, m) THEN MonthOf(n - DaysInMonth(y, m), y, m + 1) ELSE m

\* date.month
Month(date) ==
    LET y == Year(date)
    IN MonthOf(date - DaysBeforeYear(y), y, 1)

\* date.day
Day(date) ==
    LET y == Year(date)
        n == date - DaysBeforeYear(y)
    IN n - DaysBeforeMonth(y, MonthOf(n, y, 1)) + 1

\* date.isoweekday(): 1 = Monday .. 7 = Sunday
isoweekday(date) == (date % 7) + 1

(* --------------------------- snapshot names ---------------------------- *)
DigitChars == <<"0", "1", "2", "3", "4", "5", "6", "7", "8", "9">>

DigitVals == [c \in {DigitChars[k] : k \in 1..10} |-> (CHOOSE k \in 1..10 : DigitChars[k] = c) - 1]

IsDigit(c) == c \in DOMAIN DigitVals

DigitVal(c) == DigitVals[c]

\* config.get("snapshot_prefix", "")
snapshot_prefix == <<>>

\* date.strftime("%Y%m%d")
strftime(date) ==
    LET y == Year(date)
        m == Month(date)
        d == Day(date)
    IN << DigitChars[((y \div 1000) % 10) + 1], DigitChars[((y \div 100) % 10) + 1],
          DigitChars[((y \div 10) % 10) + 1], DigitChars[(y % 10) + 1],
          DigitChars[(m \div 10) + 1], DigitChars[(m % 10) + 1],
          DigitChars[(d \div 10) + 1], DigitChars[(d % 10) + 1] >>

\* "{}{}".format(prefix, date.strftime("%Y%m%d")): the part of a snapshot name after "@"
SnapshotName(date) == snapshot_prefix \o strftime(date)

\* the value standing for ValueError
ParseError == -100000

CharAt(s, k) == IF k >= 1 /\ k <= Len(s) THEN s[k] ELSE "$"

\* (?P<m>1[0-2]|0[1-9]|[1-9]) at position k: the lengths that match, in the order tried
MonthLens(s, k) ==
    LET a == CharAt(s, k)
        b == CharAt(s, k + 1)
        two == (a = "1" /\ b \in {"0", "1", "2"}) \/ (a = "0" /\ IsDigit(b) /\ b # "0")
        one == IsDigit(a) /\ a # "0"
    IN (IF two THEN <<2>> ELSE <<>>) \o (IF one THEN <<1>> ELSE <<>>)

\* (?P<d>3[0-1]|[1-2]\d|0[1-9]|[1-9]| [1-9]) at position k
DayLens(s, k) ==
    LET a == CharAt(s, k)
        b == CharAt(s, k + 1)
        two == \/ (a = "3" /\ b \in {"0", "1"})
               \/ (a \in {"1", "2"} /\ IsDigit(b))
               \/ (a = "0" /\ IsDigit(b) /\ b # "0")
        one == IsDigit(a) /\ a # "0"
        spc == a = " " /\ IsDigit(b) /\ b # "0"
    IN (IF two \/ spc THEN <<2>> ELSE <<>>) \o (IF one THEN <<1>> ELSE <<>>)

\* value of the digits of s at k .. k+n-1, a leading space counting for nothing
NumAt(s, k, n) ==
    IF n = 1 THEN DigitVal(s[k])
    ELSE IF s[k] = " " THEN DigitVal(s[k + 1])
    ELSE 10 * DigitVal(s[k]) + DigitVal(s[k + 1])

\* datetime.strptime(timestamp, "{}%Y%m%d".format(prefix)).date(), or ParseError
strptime(timestamp) ==
    LET p == Len(snapshot_prefix)
        s == timestamp
    IN IF Len(s) < p + 4 \/ SubSeq(s, 1, p) # snapshot_prefix THEN ParseError
       ELSE IF \E k \in (p + 1)..(p + 4) : ~IsDigit(s[k]) THEN ParseError
       ELSE
         LET y == 1000 * DigitVal(s[p + 1]) + 100 * DigitVal(s[p + 2])
                  + 10 * DigitVal(s[p + 3]) + DigitVal(s[p + 4])
             ml == MonthLens(s, p + 5)
             \* the first month alternative after which a day alternative matches
             mok == { j \in 1..Len(ml) : Len(DayLens(s, p + 5 + ml[j])) > 0 }
         IN IF mok = {} THEN ParseError
            ELSE
              LET j == CHOOSE x \in mok : \A z \in mok : x <= z
                  mlen == ml[j]
                  dlen == DayLens(s, p + 5 + mlen)[1]
                  m == NumAt(s, p + 5, mlen)
                  d == NumAt(s, p + 5 + mlen, dlen)
              IN IF p + 4 + mlen + dlen # Len(s) THEN ParseError   \* unconverted data remains
                 ELSE IF y < 1 \/ d > DaysInMonth(y, m) THEN ParseError
                 ELSE ToDate(y, m, d)

(* --------------------------- inputs of a run --------------------------- *)
\* candidate calendar days, most interesting first: 2024-09-01 (Sunday, day 1),
\* 2024-08-25 (Sunday), 2024-08-01 (Thursday, day 1), 2024-09-02 (Monday),
\* 2024-08-31 (Saturday), 2024-09-08 (Sunday), 2024-10-01 (Tuesday, day 1)
DateSeq == <<244, 237, 213, 245, 243, 251, 274>>

Dates == { DateSeq[k] : k \in 1..(IF MaxDates < Len(DateSeq) THEN MaxDates ELSE Len(DateSeq)) }

DatasetNames == <<"tank", "pool">>

NameSet == { DatasetNames[k] : k \in 1..Len(DatasetNames) }

\* dict.get(key, default)
Get(dict, key, default) == IF key \in DOMAIN dict THEN dict[key] ELSE default

\* a key of a dict that is either left out (None) or set to v
Opt(key, v) == IF v = 0 THEN <<>> ELSE (key :> v)

\* dataset entries of the configuration file for one dataset: an optional keep_days
DatasetEntries(n, max) == { ("name" :> n) @@ Opt("keep_days", kd) : kd \in 0..max }

\* configuration files: global keep_weeks / keep_months (optional), two datasets
Configs ==
    { [datasets |-> <<e1, e2>>] @@ Opt("keep_weeks", kw) @@ Opt("keep_months", km) :
          kw \in 0..MaxKeep, km \in 0..MaxKeep,
          e1 \in DatasetEntries(DatasetNames[1], MaxKeep),
          e2 \in DatasetEntries(DatasetNames[2], MaxKeep) }

\* configuration files in which some dataset entry has no name
BadConfigs ==
    { [datasets |-> <<e1, e2>>] :
          e1 \in { ("name" :> DatasetNames[1]) @@ ("keep_days" :> 1), ("keep_days" :> 1) },
          e2 \in { ("name" :> DatasetNames[2]) @@ ("keep_days" :> 1), ("keep_days" :> 1) } }
    \ { [datasets |-> <<("name" :> DatasetNames[1]) @@ ("keep_days" :> 1),
                        ("name" :> DatasetNames[2]) @@ ("keep_days" :> 1)>>] }

\* configuration files with a single dataset
SingleConfigs(max) ==
    { [datasets |-> <<e1>>] @@ Opt("keep_weeks", kw) @@ Opt("keep_months", km) :
          kw \in 0..max, km \in 0..max, e1 \in DatasetEntries(DatasetNames[1], max) }
    \cup { [datasets |-> <<("keep_days" :> 1)>>] }

CandidateNames == { SnapshotName(d) : d \in Dates }

\* backend contents: per dataset, canonical names of candidate days
Backends == [NameSet -> SUBSET CandidateNames]

\* backend contents when the second dataset holds what the first holds, or nothing
PairedBackends == { b \in Backends : b[DatasetNames[2]] \in {{}, b[DatasetNames[1]]} }

\* backend contents when only the first dataset holds snapshots
SingleBackends == { b \in Backends : \A n \in NameSet \ {DatasetNames[1]} : b[n] = {} }

\* a name in another form that strptime accepts: "2024825" is read as 2024-08-25
AliasNames == { <<"2", "0", "2", "4", "8", "2", "5">> }

\* names strptime rejects: no date at all, and 2024-02-30
ForeignNames == { <<"m", "a", "n", "u", "a", "l">>, <<"2", "0", "2", "4", "0", "2", "3", "0">> }

\* backend contents when the first dataset also holds the snapshots that
\* zfs-backup-manager did not name
NamedBackends ==
    { [n \in NameSet |-> IF n = DatasetNames[1] THEN s \cup AliasNames \cup ForeignNames ELSE {}] :
          s \in SUBSET CandidateNames }

(* ------------------------------- state --------------------------------- *)
VARIABLES
    config,             \* the configuration file as loaded (toml.load)
    dry_run,            \* --dry-run of the current invocation
    zfs_path,           \* which("zfs"): TRUE when the tool is found
    zfs,                \* the backend: dataset -> set of snapshot names
    run,                \* number of the current invocation of main
    pc,                 \* position in main
    dataset_configs,    \* main: validated dataset entries
    today,              \* main: today
    idx,                \* main: index of dataset_config in dataset_configs
    dataset_snapshots,  \* main: the re-queried catalog of the current dataset
    keep_set,           \* main: keep_set
    todo,               \* main: dates the destroy loop has not reached yet
    ret,                \* return value of main, NoRet while running
    log,                \* bag of log records written by this invocation
    calls,              \* bag of zfs snapshot / zfs destroy commands executed by this invocation
    passes,             \* index -> the catalog and keep set of its cleanup pass in this invocation
    zfs0,               \* the backend when this invocation started
    prev                \* summary of the previous invocation

vars == <<config, dry_run, zfs_path, zfs, run, pc, dataset_configs, today, idx,
          dataset_snapshots, keep_set, todo, ret, log, calls, passes, zfs0, prev>>

NoRet == -1
NoDate == -1

(* ------------------------- get_sorted_snapshots ------------------------ *)
SetMax(S) == CHOOSE x \in S : \A y \in S : y <= x

\* variant: list.sort() without reverse=True
RECURSIVE SortForward(_)
SortForward(count) ==
    IF DOMAIN count = {} THEN <<>>
    ELSE LET mx == CHOOSE x \in DOMAIN count : \A y \in DOMAIN count : y <= x
         IN SortForward([d \in DOMAIN count \ {mx} |-> count[d]]) \o [k \in 1..count[mx] |-> mx]

\* list.sort(reverse=True) of a list given as date -> number of occurrences
RECURSIVE SortReverse(_)
SortReverse(count) ==
    IF DOMAIN count = {} THEN <<>>
    ELSE LET mx == SetMax(DOMAIN count)
         IN [k \in 1..count[mx] |-> mx] \o SortReverse([d \in DOMAIN count \ {mx} |-> count[d]])

\* variant: a name that does not parse is given the date 2024-01-01 instead of being
\* skipped
SortedDatesDefaulted(names) ==
    LET parsed == { <<n, IF strptime(n) = ParseError THEN 0 ELSE strptime(n)>> : n \in names }
        dates == { p[2] : p \in parsed }
    IN SortReverse([d \in dates |-> Cardinality({ p \in parsed : p[2] = d })])

\* one list element per listed name that parses, in descending order
SortedDates(names) ==
    LET parsed == { <<n, strptime(n)>> : n \in names }
        ok == { p \in parsed : p[2] # ParseError }
        dates == { p[2] : p \in ok }
    IN SortReverse([d \in dates |-> Cardinality({ p \in ok : p[2] = d })])

\* get_sorted_snapshots(config)[dataset]; a dataset that is not listed gives []
get_sorted_snapshots(backend, dataset) ==
    IF dataset \in DOMAIN backend THEN SortedDates(backend[dataset]) ELSE <<>>

(* -------------------------- get_dataset_configs ------------------------ *)
\* TRUE when get_dataset_configs raises RuntimeError
ConfigError(cfg) ==
    \E k \in 1..Len(Get(cfg, "datasets", <<>>)) : "name" \notin DOMAIN cfg["datasets"][k]

validated_dict(cfg, dataset) ==
    [ name |-> dataset["name"],
      recursive |-> Get(dataset, "recursive", Get(cfg, "recursive", DEFAULT_RECURSIVE)),
      dom |-> Get(dataset, "dom", Get(cfg, "dom", DEFAULT_DOM)),
      dow |-> Get(dataset, "dow", Get(cfg, "dow", DEFAULT_DOW)),
      keep_days |-> Get(dataset, "keep_days", Get(cfg, "keep_days", DEFAULT_KEEP_DAYS)),
      keep_weeks |-> Get(dataset, "keep_weeks", Get(cfg, "keep_weeks", DEFAULT_KEEP_WEEKS)),
      keep_months |-> Get(dataset, "keep_months", Get(cfg, "keep_months", DEFAULT_KEEP_MONTHS)) ]

get_dataset_configs(cfg) ==
    [k \in 1..Len(Get(cfg, "datasets", <<>>)) |-> validated_dict(cfg, cfg["datasets"][k])]

(* ------------------------- retention policy ---------------------------- *)
\* variant: the slice is one element too long
TakeOneMore(seq, n) == SubSeq(seq, 1, IF n + 1 < Len(seq) THEN n + 1 ELSE Len(seq))

\* variant: seq[-n:], the slice taken from the tail of the list
TakeLast(seq, n) ==
    IF n > 0 THEN SubSeq(seq, IF Len(seq) - n + 1 > 1 THEN Len(seq) - n + 1 ELSE 1, Len(seq))
    ELSE IF n = 0 THEN seq
    ELSE SubSeq(seq, IF 1 - n <= Len(seq) THEN 1 - n ELSE Len(seq) + 1, Len(seq))

\* seq[:n]; a negative n counts from the end
Take(seq, n) ==
    IF n >= 0 THEN SubSeq(seq, 1, IF n < Len(seq) THEN n ELSE Len(seq))
    ELSE SubSeq(seq, 1, IF Len(seq) + n > 0 THEN Len(seq) + n ELSE 0)

Range(seq) == { seq[k] : k \in 1..Len(seq) }

keep_daily_set(dc, snapshots) == Range(Take(snapshots, dc.keep_days))

\* variant: the weekly tier is sliced from what the daily tier left over
keep_weekly_set_residual(dc, snapshots) ==
    LET NotDaily(s) == s \notin Range(Take(snapshots, dc.keep_days))
        OnDow(s) == isoweekday(s) = dc.dow
    IN Range(Take(SelectSeq(SelectSeq(snapshots, NotDaily), OnDow), dc.keep_weeks))

keep_weekly_set(dc, snapshots) ==
    LET OnDow(s) == isoweekday(s) = dc.dow
    IN Range(Take(SelectSeq(snapshots, OnDow), dc.keep_weeks))

keep_monthly_set(dc, snapshots) ==
    LET OnDom(s) == Day(s) = dc.dom
    IN Range(Take(SelectSeq(snapshots, OnDom), dc.keep_months))

KeepSet(dc, snapshots) ==
    keep_daily_set(dc, snapshots) \cup keep_weekly_set(dc, snapshots)
        \cup keep_monthly_set(dc, snapshots)

\* variant: the difference is taken the other way round
DeletionSetReversed(snapshots, keep) == keep \ Range(snapshots)

\* variant: the keep set is not subtracted
DeletionSetAll(snapshots, keep) == Range(snapshots)

\* set(dataset_snapshots) - keep_set
DeletionSet(snapshots, keep) == Range(snapshots) \ keep

\* variant: the daily trigger compares with >= instead of >
IsDueAlways(dc, day) ==
    \/ dc.keep_days >= 0
    \/ (dc.keep_weeks > 0 /\ isoweekday(day) = dc.dow)
    \/ (dc.keep_months > 0 /\ Day(day) = dc.dom)

\* variant: the weekly trigger does not look at keep_weeks
IsDueAnyWeek(dc, day) ==
    \/ dc.keep_days > 0
    \/ isoweekday(day) = dc.dow
    \/ (dc.keep_months > 0 /\ Day(day) = dc.dom)

\* the condition of the scheduling test at the head of the loop
IsDue(dc, day) ==
    \/ dc.keep_days > 0
    \/ (dc.keep_weeks > 0 /\ isoweekday(day) = dc.dow)
    \/ (dc.keep_months > 0 /\ Day(day) = dc.dom)

(* ------------------------------ reporting ------------------------------ *)
LogRec(level, event, dataset, date) ==
    [level |-> level, event |-> event, dataset |-> dataset, date |-> date]

Logged(bag, rec) == bag (+) SetToBag({rec})

\* cmd = ["zfs", op, "-r"?, dataset@name] and whether it exited with status 0
Call(op, dc, date, ok) ==
    [op |-> op, recursive |-> dc.recursive, dataset |-> dc.name,
     name |-> SnapshotName(date), ok |-> ok]

(* -------------------------------- main --------------------------------- *)
Start(configs, backends) ==
    /\ config \in configs
    /\ zfs \in backends
    /\ zfs0 = zfs
    /\ dry_run = FALSE
    /\ zfs_path = TRUE
    /\ run = 1
    /\ pc = "start"
    /\ dataset_configs = <<>>
    /\ today = NoDate
    /\ idx = 0
    /\ dataset_snapshots = <<>>
    /\ keep_set = {}
    /\ todo = {}
    /\ ret = NoRet
    /\ log = EmptyBag
    /\ calls = EmptyBag
    /\ passes = <<>>
    /\ prev = [today |-> NoDate, clean |-> FALSE, created |-> {}, start |-> zfs,
               dry |-> FALSE, decisions |-> {}, days |-> {},
               fresh |-> \A n \in DOMAIN zfs : zfs[n] = {}]

Init == Start(Configs \cup BadConfigs, PairedBackends)

InitOne == Start(SingleConfigs(MaxKeepSingle), SingleBackends)

InitRuns == Start(SingleConfigs(MaxKeep), SingleBackends)

InitNames == Start(SingleConfigs(MaxKeep), NamedBackends)

\* the dataset entry the loop is at
dataset_config == dataset_configs[idx]

\* the loop variables after the body for one dataset ended
NextDataset ==
    /\ idx' = idx + 1
    /\ pc' = "loop"
    /\ dataset_snapshots' = <<>>
    /\ keep_set' = {}
    /\ todo' = {}

\* variant: the critical message is logged but `return 2` is missing
MainNoZfsGoesOn ==
    /\ pc = "start"
    /\ \E dry \in BOOLEAN : dry_run' = dry
    /\ zfs_path' = FALSE
    /\ ~ConfigError(config)
    /\ log' = Logged(log, LogRec("critical", "zfs_not_found", "", NoDate))
    /\ dataset_configs' = get_dataset_configs(config)
    /\ \E day \in Dates : day >= prev.today /\ today' = day
    /\ idx' = 1
    /\ pc' = "loop"
    /\ UNCHANGED <<config, zfs, run, dataset_snapshots, keep_set, todo, ret, calls,
                   passes, zfs0, prev>>

\* main is entered with a dry_run flag; which("zfs") finds nothing
MainNoZfs ==
    /\ pc = "start"
    /\ \E dry \in BOOLEAN : dry_run' = dry
    /\ zfs_path' = FALSE
    /\ log' = Logged(log, LogRec("critical", "zfs_not_found", "", NoDate))
    /\ ret' = 2
    /\ pc' = "done"
    /\ UNCHANGED <<config, zfs, run, dataset_configs, today, idx, dataset_snapshots,
                   keep_set, todo, calls, passes, zfs0, prev>>

\* get_dataset_configs raises RuntimeError
MainConfigError ==
    /\ pc = "start"
    /\ \E dry \in BOOLEAN : dry_run' = dry
    /\ zfs_path' = TRUE
    /\ ConfigError(config)
    /\ log' = Logged(log, LogRec("critical", "config_error", "", NoDate))
    /\ ret' = 3
    /\ pc' = "done"
    /\ UNCHANGED <<config, zfs, run, dataset_configs, today, idx, dataset_snapshots,
                   keep_set, todo, calls, passes, zfs0, prev>>

\* both checks pass: the entries are validated and today is read from the clock,
\* which never runs backwards between invocations
MainBegin ==
    /\ pc = "start"
    /\ \E dry \in BOOLEAN : dry_run' = dry
    /\ zfs_path' = TRUE
    /\ ~ConfigError(config)
    /\ dataset_configs' = get_dataset_configs(config)
    /\ \E day \in Dates : day >= prev.today /\ today' = day
    /\ idx' = 1
    /\ pc' = "loop"
    /\ UNCHANGED <<config, zfs, run, dataset_snapshots, keep_set, todo, ret, log, calls,
                   passes, zfs0, prev>>

AtDataset == pc = "loop" /\ idx <= Len(dataset_configs)

\* nothing is scheduled for the dataset today: continue
NotScheduled ==
    /\ AtDataset
    /\ ~IsDue(dataset_config, today)
    /\ log' = Logged(log, LogRec("debug", "not_scheduled", dataset_config.name, NoDate))
    /\ NextDataset
    /\ UNCHANGED <<config, dry_run, zfs_path, zfs, run, dataset_configs, today, ret, calls,
                   passes, zfs0, prev>>

\* variant: the listing is not consulted
TodayListedNever == FALSE

TodayListed == today \in Range(get_sorted_snapshots(zfs, dataset_config.name))

\* today's snapshot is already listed: continue
AlreadyExists ==
    /\ AtDataset
    /\ IsDue(dataset_config, today)
    /\ TodayListed
    /\ log' = Logged(log, LogRec("warning", "already_exists", dataset_config.name, today))
    /\ NextDataset
    /\ UNCHANGED <<config, dry_run, zfs_path, zfs, run, dataset_configs, today, ret, calls,
                   passes, zfs0, prev>>

\* variant: the command is run whatever dry_run says
ExecutedAlways(outcome) == outcome # "dry"

\* `if not dry_run:` in front of subprocess.check_output: the command is left out
\* exactly in a dry run
Executed(outcome) == outcome = "dry" <=> dry_run

\* variant: CalledProcessError is not caught and ends main
AfterCreateRaise(outcome) ==
    /\ ret' = IF outcome = "failed" THEN 1 ELSE ret
    /\ pc' = IF outcome = "failed" THEN "done" ELSE "cleanup"
    /\ UNCHANGED <<idx, dataset_snapshots, keep_set, todo>>

\* what follows the snapshot command: the except clause only logs, cleanup comes next
AfterCreate(outcome) ==
    /\ ret' = ret
    /\ pc' = "cleanup"
    /\ UNCHANGED <<idx, dataset_snapshots, keep_set, todo>>

\* the snapshot command is built and reported, and left out (dry run), run
\* with success, or run with CalledProcessError
CreateSnapshot(outcome) ==
    /\ AtDataset
    /\ IsDue(dataset_config, today)
    /\ ~TodayListed
    /\ Executed(outcome)
    /\ outcome = "ok" => SnapshotName(today) \notin zfs[dataset_config.name]
    /\ zfs' = IF outcome = "ok"
              THEN [zfs EXCEPT ![dataset_config.name] = @ \cup {SnapshotName(today)}]
              ELSE zfs
    /\ calls' = IF outcome = "dry" THEN calls
                ELSE Logged(calls, Call("snapshot", dataset_config, today, outcome = "ok"))
    /\ log' = LET l1 == Logged(log, LogRec("info", "creating", dataset_config.name, today))
              IN IF outcome = "failed"
                 THEN Logged(l1, LogRec("error", "create_failed", dataset_config.name, today))
                 ELSE l1
    /\ AfterCreate(outcome)
    /\ UNCHANGED <<config, dry_run, zfs_path, run, dataset_configs, today, passes, zfs0, prev>>

CreateDry == CreateSnapshot("dry")

CreateOk == CreateSnapshot("ok")

CreateFailed == CreateSnapshot("failed")

\* the catalog is queried again and the keep set computed
Cleanup ==
    /\ pc = "cleanup"
    /\ LET snaps == get_sorted_snapshots(zfs, dataset_config.name)
           keep == KeepSet(dataset_config, snaps)
       IN /\ passes' = passes @@ (idx :> [listed |-> zfs[dataset_config.name],
                                          snapshots |-> snaps, keep_set |-> keep])
          /\ IF DeletionSet(snaps, keep) = {}
             THEN NextDataset
             ELSE /\ dataset_snapshots' = snaps
                  /\ keep_set' = keep
                  /\ todo' = DeletionSet(snaps, keep)
                  /\ pc' = "destroy"
                  /\ idx' = idx
    /\ UNCHANGED <<config, dry_run, zfs_path, zfs, run, dataset_configs, today, ret, log,
                   calls, zfs0, prev>>

\* variant: a failed destroy is tried again
AfterDestroyRetry(outcome, snapshot) ==
    /\ ret' = ret
    /\ IF outcome = "failed"
       THEN UNCHANGED <<pc, idx, dataset_snapshots, keep_set, todo>>
       ELSE IF todo \ {snapshot} = {}
            THEN NextDataset
            ELSE /\ todo' = todo \ {snapshot}
                 /\ UNCHANGED <<pc, idx, dataset_snapshots, keep_set>>

\* variant: CalledProcessError of a destroy command is not caught and ends main
AfterDestroyRaise(outcome, snapshot) ==
    IF outcome = "failed"
    THEN /\ ret' = 1
         /\ pc' = "done"
         /\ UNCHANGED <<idx, dataset_snapshots, keep_set, todo>>
    ELSE /\ ret' = ret
         /\ IF todo \ {snapshot} = {}
            THEN NextDataset
            ELSE /\ todo' = todo \ {snapshot}
                 /\ UNCHANGED <<pc, idx, dataset_snapshots, keep_set>>

\* variant: a failed destroy leaves the loop over the deletion set
AfterDestroyBreak(outcome, snapshot) ==
    /\ ret' = ret
    /\ IF todo \ {snapshot} = {} \/ outcome = "failed"
       THEN NextDataset
       ELSE /\ todo' = todo \ {snapshot}
            /\ UNCHANGED <<pc, idx, dataset_snapshots, keep_set>>

\* what follows one destroy command: the except clause only logs, the loop goes on
AfterDestroy(outcome, snapshot) ==
    /\ ret' = ret
    /\ IF todo \ {snapshot} = {}
       THEN NextDataset
       ELSE /\ todo' = todo \ {snapshot}
            /\ UNCHANGED <<pc, idx, dataset_snapshots, keep_set>>

\* one iteration of the destroy loop, for a date the loop has not reached yet
DestroySnapshot(outcome) ==
    /\ pc = "destroy"
    /\ Executed(outcome)
    /\ \E snapshot \in todo :
          /\ outcome = "ok" => SnapshotName(snapshot) \in zfs[dataset_config.name]
          /\ zfs' = IF outcome = "ok"
                    THEN [zfs EXCEPT ![dataset_config.name] = @ \ {SnapshotName(snapshot)}]
                    ELSE zfs
          /\ calls' = IF outcome = "dry" THEN calls
                      ELSE Logged(calls, Call("destroy", dataset_config, snapshot, outcome = "ok"))
          /\ log' = LET l1 == Logged(log, LogRec("info", "destroying", dataset_config.name, snapshot))
                    IN IF outcome = "failed"
                       THEN Logged(l1, LogRec("error", "destroy_failed", dataset_config.name, snapshot))
                       ELSE l1
          /\ AfterDestroy(outcome, snapshot)
    /\ UNCHANGED <<config, dry_run, zfs_path, run, dataset_configs, today, passes, zfs0, prev>>

DestroyDry == DestroySnapshot("dry")

DestroyOk == DestroySnapshot("ok")

DestroyFailed == DestroySnapshot("failed")

\* the loop is exhausted: return 0
Return ==
    /\ pc = "loop"
    /\ idx > Len(dataset_configs)
    /\ ret' = 0
    /\ pc' = "done"
    /\ UNCHANGED <<config, dry_run, zfs_path, zfs, run, dataset_configs, today, idx,
                   dataset_snapshots, keep_set, todo, log, calls, passes, zfs0, prev>>

\* what the invocation reported about creating and destroying
Decisions ==
    { r \in BagToSet(log) :
          r.event \in {"not_scheduled", "already_exists", "creating", "destroying"} }

\* the days of the invocations so far on which the first dataset was due
DueDays ==
    prev.days \cup (IF dataset_configs # <<>> /\ IsDue(dataset_configs[1], today)
                    THEN {today} ELSE {})

\* TRUE when every zfs command of the invocation was run and succeeded
CleanRun == ret = 0 /\ ~dry_run /\ \A c \in BagToSet(calls) : c.ok

\* the job is started again (cron): a fresh process on the same configuration and backend.
\* prev keeps the day, the outcome and the starting backend of the invocation that ended;
\* with history it also keeps its dry_run flag and the reports of a dry run, the days so
\* far on which the first dataset was due, and whether the backend started empty and every
\* invocation ran all its commands with success on a later day than the one before
Restart(history) ==
    /\ pc = "done"
    /\ run < MaxRuns
    /\ ret = 0
    /\ run' = run + 1
    /\ prev' = [today |-> today, clean |-> CleanRun, start |-> zfs0,
                created |-> { c.dataset : c \in { x \in BagToSet(calls) : x.op = "snapshot" /\ x.ok } },
                dry |-> history /\ dry_run,
                decisions |-> IF history /\ dry_run THEN Decisions ELSE {},
                days |-> IF history THEN DueDays ELSE {},
                fresh |-> history /\ prev.fresh /\ CleanRun /\ today > prev.today]
    /\ zfs0' = zfs
    /\ pc' = "start"
    /\ dataset_configs' = <<>>
    /\ today' = NoDate
    /\ idx' = 0
    /\ ret' = NoRet
    /\ log' = EmptyBag
    /\ calls' = EmptyBag
    /\ passes' = <<>>
    /\ UNCHANGED <<config, dry_run, zfs_path, zfs, dataset_snapshots, keep_set, todo>>

NextRun == Restart(FALSE)

NextRunTraced == Restart(TRUE)

Next ==
    \/ MainNoZfs
    \/ MainConfigError
    \/ MainBegin
    \/ NotScheduled
    \/ AlreadyExists
    \/ CreateDry
    \/ CreateOk
    \/ CreateFailed
    \/ Cleanup
    \/ DestroyDry
    \/ DestroyOk
    \/ DestroyFailed
    \/ Return

\* one invocation of main on a configuration with two datasets
Spec == Init /\ [][Next]_vars

\* one invocation of main on a configuration with one dataset
SpecOne == InitOne /\ [][Next]_vars

\* invocations one after the other
NextRuns == Next \/ NextRun

SpecRuns == InitRuns /\ [][NextRuns]_vars

\* invocations one after the other, with the history the properties about several
\* invocations read
NextTraced == Next \/ NextRunTraced

SpecTraced == InitRuns /\ [][NextTraced]_vars

\* invocations one after the other on a backend that also holds snapshots with other names
SpecNames == InitNames /\ [][NextRuns]_vars

TypeOK ==
    /\ pc \in {"start", "loop", "cleanup", "destroy", "done"}
    /\ ret \in {NoRet, 0, 2, 3}
    /\ \A n \in NameSet : zfs[n] \subseteq CandidateNames \cup AliasNames \cup ForeignNames

(* ======================= properties of the program ===================== *)
Min(a, b) == IF a < b THEN a ELSE b

\* log records of this invocation with the given event, for a dataset
Events(event, dataset) ==
    { r \in BagToSet(log) : r.event = event /\ r.dataset = dataset }

EventDates(event, dataset) == { r.date : r \in Events(event, dataset) }

\* number of list positions before the first occurrence of date d that satisfy P
Ahead(seq, d, P(_)) == Cardinality({ j \in 1..Len(seq) : seq[j] > d /\ P(seq[j]) })

Descending(seq) == \A j \in 1..(Len(seq) - 1) : seq[j] >= seq[j + 1]

\* the three tiers as the retention policy states them, by rank in the descending catalog
TierDaily(dc, seq) ==
    LET Each(x) == TRUE
    IN { d \in Range(seq) : Ahead(seq, d, Each) < dc.keep_days }

TierWeekly(dc, seq) ==
    LET W(x) == isoweekday(x) = dc.dow
    IN { d \in Range(seq) : W(d) /\ Ahead(seq, d, W) < dc.keep_weeks }

TierMonthly(dc, seq) ==
    LET M(x) == Day(x) = dc.dom
    IN { d \in Range(seq) : M(d) /\ Ahead(seq, d, M) < dc.keep_months }

\* strptime of every name a backend of the model can hold
ParseOf == [n \in CandidateNames \cup AliasNames \cup ForeignNames |-> strptime(n)]

\* the dates a listing of names parses to
ParsedDates(names) == { ParseOf[n] : n \in names } \ {ParseError}

\* C1: in every cleanup pass the keep set is daily + weekly + monthly, each tier being
\* the first keep_* dates of the whole (filtered) descending catalog: a date picked by one
\* tier takes nothing from another tier, a tier with count 0 is empty, and a tier with
\* fewer matching dates than its count holds all of them.
C1_KeepSetIsUnionOfTiers ==
    \A k \in DOMAIN passes :
        LET dc == dataset_configs[k]
            seq == passes[k].snapshots
        IN /\ Descending(seq)
           /\ Range(seq) = ParsedDates(passes[k].listed)
           /\ passes[k].keep_set =
                  TierDaily(dc, seq) \cup TierWeekly(dc, seq) \cup TierMonthly(dc, seq)
           /\ dc.keep_days = 0 => TierDaily(dc, seq) = {}
           /\ dc.keep_days >= Len(seq) => Range(seq) \subseteq passes[k].keep_set

\* a pass in which the newest date is picked by the daily and the weekly tier, the weekly
\* tier has fewer matching dates than its count, and an older date is left out
C1_Witness ==
    \E k \in DOMAIN passes :
        LET dc == dataset_configs[k]
            seq == passes[k].snapshots
        IN /\ Len(seq) >= 2
           /\ dc.keep_days = 1 /\ dc.keep_weeks = 2 /\ dc.keep_months = 0
           /\ seq[1] \in TierDaily(dc, seq) \cap TierWeekly(dc, seq)
           /\ Cardinality(TierWeekly(dc, seq)) = 1
           /\ passes[k].keep_set # Range(seq)

\* the datasets whose loop body has ended in this invocation
Processed == { k \in 1..Len(dataset_configs) : k < idx }

\* C2: in every cleanup pass the dates a destroy is requested for are the re-queried
\* catalog minus the keep set: none is in the keep set, none is outside the catalog, and
\* once the pass has ended requested + kept = catalog.  No destroy is requested for a
\* dataset without a cleanup pass.
C2_DeletionIsComplement ==
    /\ \A k \in DOMAIN passes :
           LET req == EventDates("destroying", dataset_configs[k].name)
               full == ParsedDates(passes[k].listed)
               keep == passes[k].keep_set
           IN /\ req \cap keep = {}
              /\ req \subseteq full
              /\ k \in Processed => req \cup keep = full
    /\ \A r \in BagToSet(log) :
           r.event = "destroying" => \E k \in DOMAIN passes : dataset_configs[k].name = r.dataset
    /\ \A c \in BagToSet(calls) :
           c.op = "destroy" => strptime(c.name) \in EventDates("destroying", c.dataset)

\* a finished pass that kept some dates and requested the destruction of others
C2_Witness ==
    \E k \in DOMAIN passes :
        /\ k \in Processed
        /\ passes[k].keep_set # {}
        /\ Cardinality(EventDates("destroying", dataset_configs[k].name)) >= 2

\* the scheduling condition as the retention policy states it
Scheduled(dc, day) ==
    \/ dc.keep_days > 0
    \/ (dc.keep_weeks > 0 /\ isoweekday(day) = dc.dow)
    \/ (dc.keep_months > 0 /\ Day(day) = dc.dom)

\* C3: a dataset is treated as due (a create is considered, a cleanup pass may run)
\* exactly when keep_days > 0, or keep_weeks > 0 and today is the weekly anchor, or
\* keep_months > 0 and today is the monthly anchor.
C3_DueIffTierTriggers ==
    /\ \A k \in Processed :
           LET dc == dataset_configs[k]
               considered == Events("already_exists", dc.name) \cup Events("creating", dc.name)
           IN /\ considered # {} <=> Scheduled(dc, today)
              /\ Events("not_scheduled", dc.name) # {} <=> ~Scheduled(dc, today)
    /\ \A k \in DOMAIN passes : Scheduled(dataset_configs[k], today)
    /\ pc \in {"cleanup", "destroy"} => Scheduled(dataset_config, today)

\* a dataset due through the weekly tier alone, and one not due although a tier is enabled
C3_Witness ==
    /\ \E k \in Processed :
           LET dc == dataset_configs[k]
           IN /\ dc.keep_days = 0 /\ dc.keep_weeks > 0 /\ dc.keep_months > 0
              /\ isoweekday(today) = dc.dow /\ Day(today) # dc.dom
              /\ Events("creating", dc.name) # {}
    /\ \E k \in Processed : dataset_configs[k].keep_days > 0

C7_KeepSetBounded ==
    \A k \in DOMAIN passes :
        LET dc == dataset_configs[k]
        IN /\ Cardinality(passes[k].keep_set) <= dc.keep_days + dc.keep_weeks + dc.keep_months
           /\ passes[k].keep_set \subseteq ParsedDates(passes[k].listed)
           /\ pc = "destroy" /\ k = idx => keep_set = passes[k].keep_set

\* a pass with all tiers enabled whose keep set is smaller than the sum of the counts,
\* because tiers overlap, and smaller than the catalog
C7_Witness ==
    \E k \in DOMAIN passes :
        LET dc == dataset_configs[k]
        IN /\ dc.keep_days > 0 /\ dc.keep_weeks > 0 /\ dc.keep_months > 0
           /\ Cardinality(passes[k].keep_set) >= 2
           /\ Cardinality(passes[k].keep_set) < dc.keep_days + dc.keep_weeks + dc.keep_months
           /\ passes[k].keep_set # ParsedDates(passes[k].listed)

\* number of snapshots of a dataset in the backend that parse to date d
Captures(backend, dataset, d) == Cardinality({ n \in backend[dataset] : ParseOf[n] = d })

\* C4 (as claimed): a due dataset whose catalog already holds today's date skips the create
\* and still gets its cleanup pass in the same run, over the catalog including today; every
\* due dataset ends the run pruned.
C4_AlreadyExistsStillPrunes ==
    \A k \in Processed :
        LET dc == dataset_configs[k]
        IN /\ Events("already_exists", dc.name) # {} =>
                  /\ Events("creating", dc.name) = {}
                  /\ k \in DOMAIN passes
                  /\ today \in Range(passes[k].snapshots)
           /\ Scheduled(dc, today) => k \in DOMAIN passes

\* C5: a create is requested only for today's date and only when the dataset's catalog
\* does not hold it, at most once per dataset; so no run ever makes a second capture of a
\* calendar day (a date has one snapshot, or as many as the run found).  Finding today's capture is reported as a warning, not as an error, and
\* leaves the return value 0.
C5_OneCapturePerDay ==
    /\ \A k \in 1..Len(dataset_configs) :
           LET dc == dataset_configs[k]
           IN /\ Events("creating", dc.name) # {} =>
                     /\ today \notin ParsedDates(zfs0[dc.name])
                     /\ EventDates("creating", dc.name) = {today}
                     /\ Events("already_exists", dc.name) = {}
              /\ \A r \in Events("creating", dc.name) : CopiesIn(r, log) = 1
    /\ \A c \in BagToSet(calls) :
           c.op = "snapshot" => c.name = SnapshotName(today) /\ CopiesIn(c, calls) = 1
    /\ \A n \in NameSet : \A d \in ParsedDates(zfs[n]) :
           Captures(zfs, n, d) <= 1 \/ Captures(zfs, n, d) <= Captures(zfs0, n, d)
    /\ \A r \in BagToSet(log) : r.event = "already_exists" => r.level = "warning"
    /\ pc = "done" /\ dataset_configs # <<>> => ret = 0

\* the second invocation on one day ended: the first one had created today's snapshot,
\* the second one found it and returned 0
C5_Witness ==
    /\ run = 2 /\ pc = "done" /\ ret = 0
    /\ prev.today = today
    /\ DatasetNames[1] \in prev.created
    /\ Events("already_exists", DatasetNames[1]) # {}

\* TRUE in the final state of an invocation that follows one on the same day, all zfs
\* commands of both having been run with success
SameDayRerunDone ==
    /\ run >= 2 /\ pc = "done"
    /\ prev.today = today
    /\ prev.clean /\ CleanRun

\* C8 (as claimed): a second run on the same day leaves the set of captures the first run
\* left, with one capture per date, and creates nothing.
C8_SameDayIdempotent ==
    SameDayRerunDone =>
        /\ zfs = zfs0
        /\ \A n \in NameSet : \A d \in ParsedDates(zfs[n]) :
               Captures(zfs, n, d) <= 1 \/ Captures(zfs, n, d) <= Captures(prev.start, n, d)
        /\ \A n \in NameSet : Events("creating", n) = {}

\* C8 (amended): a second run on the same day leaves the set of captures the first run
\* left, with one capture per date; it creates nothing for a dataset whose starting
\* catalog held no date later than today.
C8_SameDayIdempotentAmended ==
    SameDayRerunDone =>
        /\ zfs = zfs0
        /\ \A n \in NameSet : \A d \in ParsedDates(zfs[n]) :
               Captures(zfs, n, d) <= 1 \/ Captures(zfs, n, d) <= Captures(prev.start, n, d)
        /\ \A n \in NameSet :
               (\A d \in ParsedDates(prev.start[n]) : d <= today) => Events("creating", n) = {}

\* the first run created today's snapshot and destroyed an older one, the second run on
\* the same day found today's snapshot
C8_Witness ==
    /\ SameDayRerunDone
    /\ DatasetNames[1] \in prev.created
    /\ \E n \in prev.start[DatasetNames[1]] : n \notin zfs0[DatasetNames[1]]
    /\ Events("already_exists", DatasetNames[1]) # {}

\* the dates outside the keep set of a cleanup pass
PassDeletions(k) == ParsedDates(passes[k].listed) \ passes[k].keep_set

\* C9: when the create command of a due dataset fails, cleanup comes next in the same run:
\* the catalog is queried again, is the catalog the run found (today's date is not in it),
\* and a destroy is requested for every date of it outside the keep set.
C9_FailedCreateStillPrunes ==
    \A k \in 1..Len(dataset_configs) :
        LET dc == dataset_configs[k]
        IN Events("create_failed", dc.name) # {} =>
               /\ (k = idx /\ pc = "cleanup") \/ k \in DOMAIN passes
               /\ k \in DOMAIN passes =>
                      /\ passes[k].listed = zfs0[dc.name]
                      /\ today \notin Range(passes[k].snapshots)
                      /\ k \in Processed =>
                             PassDeletions(k) \subseteq EventDates("destroying", dc.name)

\* a dataset whose create failed and whose cleanup pass kept a date and requested the
\* destruction of another
C9_Witness ==
    \E k \in Processed :
        /\ Events("create_failed", dataset_configs[k].name) # {}
        /\ k \in DOMAIN passes
        /\ passes[k].keep_set # {}
        /\ EventDates("destroying", dataset_configs[k].name) # {}

\* C10: failed zfs commands end neither the destroy loop nor the run.  An invocation that
\* passed the two fatal checks ends with every dataset processed: the due check is made,
\* a due dataset without today's capture gets its create and its cleanup pass, and every
\* date of a deletion set gets its destroy attempt, whatever commands failed.
C10_FailuresAreNotFatal ==
    /\ pc = "done" /\ dataset_configs # <<>> =>
           /\ ret = 0
           /\ \A k \in 1..Len(dataset_configs) :
                  LET dc == dataset_configs[k]
                  IN /\ k \in Processed
                     /\ ~Scheduled(dc, today) => Events("not_scheduled", dc.name) # {}
                     /\ Scheduled(dc, today) /\ today \notin ParsedDates(zfs0[dc.name]) =>
                            /\ Events("creating", dc.name) # {}
                            /\ k \in DOMAIN passes
    /\ \A k \in DOMAIN passes :
           LET dc == dataset_configs[k]
               req == EventDates("destroying", dc.name)
               tried == { strptime(c.name) :
                            c \in { x \in BagToSet(calls) : x.op = "destroy" /\ x.dataset = dc.name } }
           IN /\ k \in Processed => PassDeletions(k) \subseteq req
              /\ k = idx /\ pc = "destroy" => PassDeletions(k) = req \cup todo
              /\ ~dry_run => tried = req

\* the run ended after a failed destroy in the first dataset, whose other date was
\* destroyed, and after a failed create and the cleanup pass of the second dataset
C10_Witness ==
    /\ pc = "done"
    /\ Len(dataset_configs) = 2
    /\ Events("destroy_failed", dataset_configs[1].name) # {}
    /\ \E c \in BagToSet(calls) : c.op = "destroy" /\ c.dataset = dataset_configs[1].name /\ c.ok
    /\ Events("create_failed", dataset_configs[2].name) # {}
    /\ 2 \in DOMAIN passes
    /\ Events("destroying", dataset_configs[2].name) # {}

\* the zfs commands of this invocation that exited with an error
FailedCalls == { c \in BagToSet(calls) : ~c.ok }

\* C11: a dataset entry without a name (at any position) or a missing zfs tool ends the
\* run before any dataset is processed: no entry is validated, no create and no destroy
\* is requested or run for any dataset, the backend is as found, and main returns 2 for
\* the missing tool, 3 for the configuration error and 0 only when neither is the case.
C11_FatalErrorsAbortFirst ==
    /\ pc # "start" /\ (~zfs_path \/ ConfigError(config)) =>
           /\ pc = "done"
           /\ ret \in {2, 3}
           /\ dataset_configs = <<>>
           /\ calls = EmptyBag
           /\ passes = <<>>
           /\ zfs = zfs0
           /\ \A r \in BagToSet(log) : r.level = "critical"
    /\ pc = "done" =>
           /\ ret = 2 <=> ~zfs_path
           /\ ret = 3 <=> zfs_path /\ ConfigError(config)
           /\ ret = 0 <=> zfs_path /\ ~ConfigError(config)

\* the run returned 3 for a configuration whose first entry is valid and has snapshots
\* and whose second entry has no name
C11_Witness ==
    /\ pc = "done" /\ ret = 3
    /\ Len(config.datasets) = 2
    /\ "name" \in DOMAIN config.datasets[1]
    /\ "name" \notin DOMAIN config.datasets[2]
    /\ zfs[config.datasets[1].name] # {}

\* C12: an invocation that passed the two fatal checks returns 0 however many zfs commands
\* failed; main returns a value other than 0 only for the missing tool or the
\* configuration error, and no value at all before the loop over the datasets has ended.
C12_StatusOnlyFatal ==
    /\ pc = "done" /\ zfs_path /\ ~ConfigError(config) => ret = 0
    /\ pc = "done" /\ ret # 0 => FailedCalls = {} /\ (~zfs_path \/ ConfigError(config))
    /\ pc # "done" => ret = NoRet
    /\ FailedCalls # {} => ret \in {NoRet, 0}

\* the run returned 0 although none of its zfs commands succeeded, at least three of them
C12_Witness ==
    /\ pc = "done" /\ ret = 0
    /\ Cardinality(FailedCalls) >= 3
    /\ FailedCalls = BagToSet(calls)

\* C13: in a dry run no zfs snapshot and no zfs destroy command is run and the backend
\* holds for every dataset what it held when the run started, whatever is reported.
C13_DryRunLeavesBackend ==
    pc # "start" /\ dry_run => zfs = zfs0 /\ calls = EmptyBag

\* a dry run that ended after reporting a create and a destroy
C13_Witness ==
    /\ pc = "done" /\ dry_run /\ ret = 0
    /\ \E r \in BagToSet(log) : r.event = "creating"
    /\ \E r \in BagToSet(log) : r.event = "destroying"
    /\ \E n \in NameSet : zfs[n] # {}

\* TRUE in the final state of an invocation whose commands all succeeded and which follows
\* a dry run on the same day
RealAfterDryDone ==
    /\ run >= 2 /\ pc = "done"
    /\ prev.today = today
    /\ prev.dry /\ CleanRun

\* C14 (as claimed): a dry run reports for each dataset the create decision and the dates
\* to destroy that a run with working commands reports on the same configuration, day and
\* catalog.
C14_DryRunDecidesAlike ==
    RealAfterDryDone => zfs0 = prev.start /\ Decisions = prev.decisions

\* C15 (as claimed): the catalog a cleanup pass gets for a dataset is strictly descending,
\* with one element per date however many listed names parse to it, and a dataset without
\* listed snapshots has the empty catalog.
C15_CatalogStrictlyDescending ==
    /\ \A k \in DOMAIN passes :
           LET seq == passes[k].snapshots
           IN /\ \A j \in 1..(Len(seq) - 1) : seq[j] > seq[j + 1]
              /\ Len(seq) = Cardinality(ParsedDates(passes[k].listed))
    /\ \A n \in NameSet : zfs[n] = {} => get_sorted_snapshots(zfs, n) = <<>>

\* the listed names strptime rejects
Unparsed(names) == { n \in names : ParseOf[n] = ParseError }

C17_NoRetries ==
    /\ \A r \in BagToSet(log) :
           r.event \in {"creating", "destroying"} => CopiesIn(r, log) = 1
    /\ \A n \in NameSet : Cardinality(Events("creating", n)) <= 1
    /\ \A c \in BagToSet(calls) :
           /\ CopiesIn(c, calls) = 1
           /\ \A x \in BagToSet(calls) :
                  x.op = c.op /\ x.dataset = c.dataset /\ x.name = c.name => x = c

\* the run ended after a failed create and a failed destroy of a date that the catalog
\* held twice
C17_Witness ==
    /\ pc = "done" /\ ret = 0
    /\ \E c \in FailedCalls : c.op = "snapshot"
    /\ \E c \in FailedCalls :
           /\ c.op = "destroy"
           /\ \E k \in DOMAIN passes :
                  Cardinality({ j \in 1..Len(passes[k].snapshots) :
                                    passes[k].snapshots[j] = ParseOf[c.name] }) = 2

\* TRUE when the invocation has run the create command of the dataset with success
CreatedNow(dataset) ==
    \E c \in BagToSet(calls) : c.op = "snapshot" /\ c.dataset = dataset /\ c.ok

\* C18: when the create of a due dataset succeeded and no date of the catalog the run found
\* is later than today, today's date heads the re-queried catalog and is in the keep set,
\* as the first date of a tier whose trigger made the dataset due; the cleanup pass of the
\* run requests no destroy for it and the snapshot is still there.
C18_CreatedSnapshotIsKept ==
    \A k \in DOMAIN passes :
        LET dc == dataset_configs[k]
            seq == passes[k].snapshots
        IN (CreatedNow(dc.name) /\ \A d \in ParsedDates(zfs0[dc.name]) : d <= today) =>
               /\ seq[1] = today
               /\ today \in passes[k].keep_set
               /\ \/ dc.keep_days > 0 /\ today \in TierDaily(dc, seq)
                  \/ dc.keep_weeks > 0 /\ isoweekday(today) = dc.dow /\ today \in TierWeekly(dc, seq)
                  \/ dc.keep_months > 0 /\ Day(today) = dc.dom /\ today \in TierMonthly(dc, seq)
               /\ today \notin EventDates("destroying", dc.name)
               /\ SnapshotName(today) \in zfs[dc.name]

\* a dataset due through the weekly tier alone got today's snapshot, kept it and destroyed
\* two older ones
C18_Witness ==
    \E k \in Processed \cap DOMAIN passes :
        LET dc == dataset_configs[k]
        IN /\ dc.keep_days = 0 /\ dc.keep_weeks > 0
           /\ Day(today) # dc.dom \/ dc.keep_months = 0
           /\ CreatedNow(dc.name)
           /\ passes[k].keep_set = {today}
           /\ Cardinality({ c \in BagToSet(calls) : c.op = "destroy" /\ c.ok }) = 2
           /\ SnapshotName(today) \in zfs[dc.name]

\* C19 (as claimed): the keep set of a cleanup pass is its own keep set, and once every
\* destroy of the pass has succeeded a cleanup pass over what the backend then lists
\* would request no destroy.
C19_PruningIsIdempotent ==
    \A k \in DOMAIN passes :
        LET dc == dataset_configs[k]
            keep == passes[k].keep_set
            after == get_sorted_snapshots(zfs, dc.name)
            destroyed == { c \in BagToSet(calls) : c.op = "destroy" /\ c.dataset = dc.name }
        IN /\ KeepSet(dc, SortReverse([d \in keep |-> 1])) = keep
           /\ (k \in Processed /\ ~dry_run /\ \A c \in destroyed : c.ok) =>
                  DeletionSet(after, KeepSet(dc, after)) = {}

\* TRUE in the final state of an invocation when the backend started empty and this and
\* every earlier invocation ran all its commands with success, each on a later day
FreshDone ==
    /\ pc = "done"
    /\ prev.fresh /\ CleanRun /\ today > prev.today

\* C20: starting from an empty catalog, with one run per day at most and all commands
\* succeeding, the catalog after every run holds at most keep_days + keep_weeks +
\* keep_months dates, one snapshot per date, all of them days on which a run was due, and
\* among them the min(keep_days, number of due runs) latest of those days.
C20_BoundedRetention ==
    FreshDone =>
        LET dc == dataset_configs[1]
            cat == ParsedDates(zfs[dc.name])
            n == Min(dc.keep_days, Cardinality(DueDays))
            recent == { d \in DueDays : Cardinality({ e \in DueDays : e > d }) < n }
        IN /\ Cardinality(cat) <= dc.keep_days + dc.keep_weeks + dc.keep_months
           /\ Cardinality(zfs[dc.name]) = Cardinality(cat)
           /\ cat \subseteq DueDays
           /\ Cardinality(recent) = n
           /\ recent \subseteq cat

\* the second run on a backend that started empty: both days were due, the first day's
\* snapshot was destroyed and today's is the catalog
C20_Witness ==
    /\ FreshDone /\ run = 2
    /\ Cardinality(DueDays) = 2
    /\ dataset_configs[1].keep_days = 1
    /\ \E c \in BagToSet(calls) : c.op = "destroy" /\ c.ok
    /\ zfs[dataset_configs[1].name] = {SnapshotName(today)}

====
